---- MODULE Spec2Model ----
(***************************************************************************)
(* The log aggregator: POST /publish pushes events onto a Redis list, five *)
(* consumer workers pop them and insert them into PostgreSQL under a       *)
(* UNIQUE (topic, event_id) constraint, duplicates are counted in a Redis  *)
(* counter, and GET /stats combines the three.                             *)
(***************************************************************************)
EXTENDS Integers, Sequences, FiniteSets, TLC

(* ------------------------------ bounds --------------------------------- *)

\* Number of /publish calls that are accepted in one behaviour.
MaxPublish == 3

\* Number of workers that an error of Redis has sent into the backoff at the
\* same time.
MaxSleeping == 1

\* Number of entries in the queue at startup.
MaxBacklog == 2

\* Number of calls of the read endpoints (/events, /stats) in one behaviour.
MaxReads == 1

(* --------------------------- configuration ----------------------------- *)

WORKER_COUNT == 5

\* range(WORKER_COUNT)
Workers == 0 .. (WORKER_COUNT - 1)

(* ------------------------------ values --------------------------------- *)

\* JSON values of a request body, tagged with their JSON type.
Str(s) == [type |-> "str", val |-> s]

Num(s) == [type |-> "int", val |-> s]

Obj(d) == [type |-> "dict", val |-> d]

\* The five fields of EventPayload and the type each must have.
Fields == <<"topic", "event_id", "timestamp", "source", "payload">>

FieldType ==
    [topic |-> "str", event_id |-> "str", timestamp |-> "str",
     source |-> "str", payload |-> "dict"]

\* The bodies the test-suite's get_payload builds.
get_payload(event_id, topic, value) ==
    [event_id |-> Str(event_id), timestamp |-> Str("ts"), topic |-> Str(topic),
     source |-> Str("pytest-script"), payload |-> Obj([v |-> value])]

\* del payload[name]
Del(body, name) == [n \in (DOMAIN body) \ {name} |-> body[n]]

\* The same event twice, with two payloads.
GoodBodies == { get_payload("e1", "t1", "1"), get_payload("e1", "t1", "2") }

\* Bodies whose topic or event_id is the empty string.
EmptyKeyBodies == { get_payload("e1", "", "1"), get_payload("", "t1", "1") }

\* test_06 .. test_09: no topic, no event_id, {} and a numeric event_id.
MalformedBodies ==
    { Del(get_payload("e1", "t1", "1"), "topic"),
      Del(get_payload("e1", "t1", "1"), "event_id"),
      [n \in {} |-> Str("")],
      [get_payload("e1", "t1", "1") EXCEPT !.event_id = Num("12345")] }

Bodies == GoodBodies \cup EmptyKeyBodies \cup MalformedBodies

Validates_Untyped(body) == \A i \in DOMAIN Fields : Fields[i] \in DOMAIN body

\* Pydantic's validation of EventPayload: every field present, with its type.
Validates(body) ==
    \A i \in DOMAIN Fields :
        /\ Fields[i] \in DOMAIN body
        /\ body[Fields[i]].type = FieldType[Fields[i]]

\* event.model_dump(): the plain dict of the validated model.
model_dump(body) == [n \in DOMAIN body |-> body[n].val]

\* json.dumps of a payload dict: its text, a list of (name, value) pairs.
DumpsPayload(p) == << <<"v", p.v>> >>

\* json.dumps of an event dict, fields in the model's order.
JsonDumps(event) ==
    LET names == SelectSeq(Fields, LAMBDA n : n \in DOMAIN event) IN
    [i \in DOMAIN names |->
        <<names[i],
          IF names[i] = "payload" THEN DumpsPayload(event[names[i]])
                                  ELSE event[names[i]]>>]

\* json.loads accepts a text only if every member has its value: a text cut
\* off after a name raises JSONDecodeError.
Parses(text) == \A i \in DOMAIN text : Len(text[i]) = 2

\* json.loads of a queue entry: the dict it denotes.
JsonLoads(text) ==
    [n \in {text[i][1] : i \in DOMAIN text} |->
        LET i == CHOOSE j \in DOMAIN text : text[j][1] = n
        IN  IF n = "payload" THEN [v |-> text[i][2][1][2]] ELSE text[i][2]]

\* The dedup key of an event dict.
KeyOf(event) == <<event["topic"], event["event_id"]>>

\* event['event_id'] and event['topic'] raise KeyError on a dict without them.
HasKey(event) == {"topic", "event_id"} \subseteq DOMAIN event

Keys == {KeyOf(model_dump(b)) : b \in GoodBodies \cup EmptyKeyBodies}

NoEvent == [n \in {} |-> ""]

Statuses == {"PROCESSED", "DUPLICATE", "ERROR"}

\* Entries of event_queue that publish_event did not write: the text
\* {"topic" cut off after the name, and the JSON object {"source": "other"}.
TruncatedEntry == << <<"topic">> >>

NoKeyEntry == JsonDumps([source |-> "other"])

ForeignEntries == {TruncatedEntry, NoKeyEntry}

(* ------------------------------- state --------------------------------- *)

VARIABLES
    queue,            \* Redis list event_queue; head = left end
    counter,          \* Redis key stats:duplicates: <<>> when unset, else <<n>>
    store,            \* committed rows of processed_events, in insertion order
    pc,               \* where each consumer_worker is suspended
    event_data,       \* the event a worker popped
    result,           \* the command tag its INSERT returned
    shutdown,         \* the lifespan has cancelled the workers
    request,          \* the body of the last /publish call: <<>> or <<body>>
    response,         \* the response to it
    accepted,         \* history: per key, the number of 202 responses
    returned,         \* history: per key and status, the results of the writes
    incremented,      \* history: per key, the INCRs done on its account
    abandoned,        \* history: per key, the popped entries whose iteration
                      \* was cut short by a Redis error or by cancellation,
                      \* during the write or at the INCR
    first,            \* history: per key, the payload accepted first: <<>> or <<p>>
    stats,            \* the get_stats call: its position, locals and response
    events            \* the last get_events call: <<>> or <<its filter and response>>

vars ==
    <<queue, counter, store, pc, event_data, result, shutdown, request, response,
      accepted, returned, incremented, abandoned, first, stats, events>>

workerVars == <<pc, event_data, result>>

history == <<accepted, returned, incremented, abandoned, first>>

intake == <<request, response>>

reads == <<stats, events>>

\* get_stats before its first read.
NoStats ==
    [at |-> 0, unique_count |-> 0, dup_count |-> 0, queue_len |-> 0,
     status_code |-> 0]

Init ==
    /\ queue = <<>>
    /\ counter = <<>>
    /\ store = <<>>
    /\ pc = [w \in Workers |-> "brpop"]
    /\ event_data = [w \in Workers |-> NoEvent]
    /\ result = [w \in Workers |-> ""]
    /\ shutdown = FALSE
    /\ request = <<>>
    /\ response = [status_code |-> 0]
    /\ accepted = [k \in Keys |-> 0]
    /\ returned = [k \in Keys |-> [s \in Statuses |-> 0]]
    /\ incremented = [k \in Keys |-> 0]
    /\ abandoned = [k \in Keys |-> [write |-> 0, incr |-> 0]]
    /\ first = [k \in Keys |-> <<>>]
    /\ stats = NoStats
    /\ events = <<>>

(* ------------------------------ helpers -------------------------------- *)

RECURSIVE SumOver(_, _)
SumOver(f, S) ==
    IF S = {} THEN 0
    ELSE LET x == CHOOSE y \in S : TRUE IN f[x] + SumOver(f, S \ {x})

TotalAccepted == SumOver(accepted, Keys)

\* Rows of processed_events with the given key.
RowsOf(rows, k) == {i \in DOMAIN rows : rows[i].topic = k[1] /\ rows[i].event_id = k[2]}

\* The row an INSERT of the event writes.
RowOf(event) ==
    [event_id |-> event["event_id"], topic |-> event["topic"],
     payload |-> DumpsPayload(event["payload"]), status |-> "processed"]

\* The workers whose open transaction holds an uncommitted row with key k.
Inserting(k) ==
    {v \in Workers : pc[v] = "commit" /\ result[v] = "INSERT 0 1"
                     /\ KeyOf(event_data[v]) = k}

MustWait_NoLock(w, k) == FALSE

MustWait_Always(w, k) == TRUE

\* unique_event_dedup: an INSERT of key k waits for an open transaction that
\* has inserted the same key.
MustWait(w, k) == Inserting(k) \ {w} # {}

InsertTag_NoConstraint(rows, k) == "INSERT 0 1"

\* INSERT ... ON CONFLICT (topic, event_id) DO NOTHING: its command tag.
InsertTag(rows, k) == IF RowsOf(rows, k) # {} THEN "INSERT 0 0" ELSE "INSERT 0 1"

LPush_Twice(q, entry) == <<entry, entry>> \o q

LPush_Tail(q, entry) == Append(q, entry)

\* LPUSH: the new entry becomes the head.
LPush(q, entry) == <<entry>> \o q

RPopped_Head(q) == q[1]

\* BRPOP takes the entry at the tail.
RPopped(q) == q[Len(q)]

RPopRest_Keep(q) == q

RPopRest(q) == SubSeq(q, 1, Len(q) - 1)

Incr_Set(c) == <<1>>

\* INCR on a key: unset counts as 0.
Incr(c) == IF c = <<>> THEN <<1>> ELSE <<c[1] + 1>>

(* ------------------------------- /stats -------------------------------- *)

\* int(dup_count) if dup_count else 0
DupCount(c) == IF c = <<>> THEN 0 ELSE c[1]

\* The body get_stats returns for the three values it read.
StatsResponse(unique_count, dup_count, queue_len) ==
    [received |-> unique_count + dup_count + queue_len,
     unique_processed |-> unique_count,
     duplicate_dropped |-> dup_count,
     queue_backlog |-> queue_len,
     status |-> "healthy"]

\* SELECT COUNT(*), GET stats:duplicates and LLEN, all read in this state.
Stats == StatsResponse(Len(store), DupCount(counter), Len(queue))

(* ----------------------------- /publish -------------------------------- *)

\* A body that fails validation: 422, nothing else happens.
PublishInvalid ==
    /\ ~shutdown
    /\ \E body \in Bodies :
        /\ ~Validates(body)
        /\ request' = <<body>>
        /\ response' = [status_code |-> 422]
    /\ UNCHANGED <<queue, counter, store, workerVars, shutdown, history, reads>>

\* A valid body, pushed: 202 {"status": "queued", "event_id": ...}.
PublishQueued ==
    /\ ~shutdown
    /\ TotalAccepted < MaxPublish
    /\ \E body \in Bodies :
        /\ Validates(body)
        /\ LET event == model_dump(body) IN
            /\ queue' = LPush(queue, JsonDumps(event))
            /\ request' = <<body>>
            /\ response' = [status_code |-> 202, status |-> "queued",
                            event_id |-> event["event_id"]]
            /\ accepted' = [accepted EXCEPT ![KeyOf(event)] = @ + 1]
            /\ first' = [first EXCEPT ![KeyOf(event)] =
                                    IF @ = <<>> THEN <<event["payload"]>> ELSE @]
    /\ UNCHANGED <<counter, store, workerVars, shutdown, returned, incremented,
                   abandoned, reads>>

\* A valid body whose LPUSH raises: HTTPException(500).
PublishFailed ==
    /\ ~shutdown
    /\ \E body \in Bodies :
        /\ Validates(body)
        /\ request' = <<body>>
        /\ response' = [status_code |-> 500]
    /\ UNCHANGED <<queue, counter, store, workerVars, shutdown, history, reads>>

publish_event == PublishInvalid \/ PublishQueued \/ PublishFailed

(* -------------------------- consumer_worker ---------------------------- *)
(* The local counter processed_count only feeds a log line and is left    *)
(* out. The five workers run the same code and keep nothing between two   *)
(* iterations, so the workers waiting in BRPOP are interchangeable: an    *)
(* entry is handed to the first of them, an error is raised in the last.  *)

FirstWaiting(w) == \A v \in Workers : pc[v] = "brpop" => w <= v

LastWaiting(w) == \A v \in Workers : pc[v] = "brpop" => v <= w

\* The workers that hold a popped entry.
Holding == {w \in Workers : pc[w] \in {"insert", "commit", "incr"}}

\* The workers inside process_event_transactionally for key k.
Writing(k) ==
    {w \in Workers : /\ pc[w] \in {"insert", "commit"}
                     /\ HasKey(event_data[w])
                     /\ KeyOf(event_data[w]) = k}

\* The workers at the INCR for a duplicate of key k.
Counting(k) == {w \in Workers : pc[w] = "incr" /\ KeyOf(event_data[w]) = k}

\* BRPOP returns an entry; json.loads turns it into event_data.
Pop(w) ==
    /\ pc[w] = "brpop"
    /\ FirstWaiting(w)
    /\ queue # <<>>
    /\ Parses(RPopped(queue))
    /\ queue' = RPopRest(queue)
    /\ event_data' = [event_data EXCEPT ![w] = JsonLoads(RPopped(queue))]
    /\ pc' = [pc EXCEPT ![w] = "insert"]
    /\ UNCHANGED <<counter, store, result, shutdown, intake, history, reads>>

PopUndecodable_Retry(w) ==
    /\ pc[w] = "brpop"
    /\ FirstWaiting(w)
    /\ queue # <<>>
    /\ ~Parses(RPopped(queue))
    /\ queue' = LPush(RPopRest(queue), RPopped(queue))
    /\ pc' = [pc EXCEPT ![w] = "sleep"]
    /\ UNCHANGED <<counter, store, event_data, result, shutdown, intake, history,
                   reads>>

\* BRPOP returns an entry on which json.loads raises: caught by "except
\* Exception", then sleep(1); the entry is gone from the queue.
PopUndecodable(w) ==
    /\ pc[w] = "brpop"
    /\ FirstWaiting(w)
    /\ queue # <<>>
    /\ ~Parses(RPopped(queue))
    /\ queue' = RPopRest(queue)
    /\ pc' = [pc EXCEPT ![w] = "sleep"]
    /\ UNCHANGED <<counter, store, event_data, result, shutdown, intake, history,
                   reads>>

\* The INSERT statement inside the transaction.
Insert(w) ==
    /\ pc[w] = "insert"
    /\ HasKey(event_data[w])
    /\ ~MustWait(w, KeyOf(event_data[w]))
    /\ result' = [result EXCEPT ![w] = InsertTag(store, KeyOf(event_data[w]))]
    /\ pc' = [pc EXCEPT ![w] = "commit"]
    /\ UNCHANGED <<queue, counter, store, event_data, shutdown, intake, history, reads>>

StatusOf_Swapped(tag) == IF tag = "INSERT 0 0" THEN "PROCESSED" ELSE "DUPLICATE"

\* process_event_transactionally's return value for a command tag.
StatusOf(tag) == IF tag = "INSERT 0 1" THEN "PROCESSED" ELSE "DUPLICATE"

\* What the worker does next for a status: only DUPLICATE leads to the INCR.
AfterStatus_CountAll(s) == "incr"

AfterStatus(s) == IF s = "DUPLICATE" THEN "incr" ELSE "brpop"

\* The transaction commits, process_event_transactionally returns and the
\* worker branches on the status.
Commit(w) ==
    /\ pc[w] = "commit"
    /\ LET k == KeyOf(event_data[w])
           s == StatusOf(result[w])
       IN
        /\ store' = IF result[w] = "INSERT 0 1"
                    THEN Append(store, RowOf(event_data[w])) ELSE store
        /\ returned' = [returned EXCEPT ![k][s] = @ + 1]
        /\ pc' = [pc EXCEPT ![w] = AfterStatus(s)]
        /\ event_data' =
              IF AfterStatus(s) = "incr" THEN event_data
              ELSE [event_data EXCEPT ![w] = NoEvent]
    /\ result' = [result EXCEPT ![w] = ""]
    /\ UNCHANGED <<queue, counter, shutdown, intake, accepted, incremented,
                   abandoned, first, reads>>

\* The arguments of the INSERT raise KeyError inside the try: ERROR.
InsertKeyError(w) ==
    /\ pc[w] = "insert"
    /\ ~HasKey(event_data[w])
    /\ pc' = [pc EXCEPT ![w] = AfterStatus("ERROR")]
    /\ event_data' = [event_data EXCEPT ![w] = NoEvent]
    /\ UNCHANGED <<queue, counter, store, result, shutdown, intake, history,
                   reads>>

WriteError_Requeue(w) ==
    /\ pc[w] \in {"insert", "commit"}
    /\ HasKey(event_data[w])
    /\ returned' = [returned EXCEPT ![KeyOf(event_data[w])]["ERROR"] = @ + 1]
    /\ result' = [result EXCEPT ![w] = ""]
    /\ pc' = [pc EXCEPT ![w] = "brpop"]
    /\ queue' = LPush(queue, JsonDumps(event_data[w]))
    /\ event_data' = [event_data EXCEPT ![w] = NoEvent]
    /\ UNCHANGED <<counter, store, shutdown, intake, accepted, incremented,
                   abandoned, first, reads>>

\* An exception inside process_event_transactionally: the transaction is
\* rolled back and ERROR is returned; the worker goes on to the next BRPOP.
WriteError(w) ==
    /\ pc[w] \in {"insert", "commit"}
    /\ HasKey(event_data[w])
    /\ returned' = [returned EXCEPT ![KeyOf(event_data[w])]["ERROR"] = @ + 1]
    /\ result' = [result EXCEPT ![w] = ""]
    /\ pc' = [pc EXCEPT ![w] = AfterStatus("ERROR")]
    /\ event_data' =
          IF AfterStatus("ERROR") = "incr" THEN event_data
          ELSE [event_data EXCEPT ![w] = NoEvent]
    /\ UNCHANGED <<queue, counter, store, shutdown, intake, accepted,
                   incremented, abandoned, first, reads>>

\* INCR stats:duplicates.
IncrDuplicates(w) ==
    /\ pc[w] = "incr"
    /\ counter' = Incr(counter)
    /\ incremented' = [incremented EXCEPT ![KeyOf(event_data[w])] = @ + 1]
    /\ event_data' = [event_data EXCEPT ![w] = NoEvent]
    /\ pc' = [pc EXCEPT ![w] = "brpop"]
    /\ UNCHANGED <<queue, store, result, shutdown, intake, accepted, returned,
                   abandoned, first, reads>>

\* BRPOP or INCR raises: caught by "except Exception", then sleep(1).
RedisError(w) ==
    /\ pc[w] \in {"brpop", "incr"}
    /\ pc[w] = "brpop" => LastWaiting(w)
    /\ Cardinality({v \in Workers : pc[v] = "sleep"}) < MaxSleeping
    /\ pc' = [pc EXCEPT ![w] = "sleep"]
    /\ abandoned' =
          IF pc[w] = "incr"
          THEN [abandoned EXCEPT ![KeyOf(event_data[w])].incr = @ + 1]
          ELSE abandoned
    /\ event_data' = [event_data EXCEPT ![w] = NoEvent]
    /\ UNCHANGED <<queue, counter, store, result, shutdown, intake, accepted,
                   returned, incremented, first, reads>>

Slept_Crash(w) ==
    /\ pc[w] = "sleep"
    /\ pc' = [pc EXCEPT ![w] = "stopped"]
    /\ UNCHANGED <<queue, counter, store, event_data, result, shutdown, intake,
                   history, reads>>

\* sleep(1) is over; back to the top of the loop.
Slept(w) ==
    /\ pc[w] = "sleep"
    /\ pc' = [pc EXCEPT ![w] = "brpop"]
    /\ UNCHANGED <<queue, counter, store, event_data, result, shutdown, intake,
                   history, reads>>

\* One step of the loop; a cancelled worker is "stopped" and takes none.
consumer_worker(w) ==
    \/ Pop(w)
    \/ Insert(w)
    \/ Commit(w)
    \/ WriteError(w)
    \/ IncrDuplicates(w)
    \/ RedisError(w)
    \/ Slept(w)

(* ------------------------------ lifespan ------------------------------- *)

\* Shutdown: every worker task is cancelled at the await it is suspended in;
\* CancelledError rolls an open transaction back and breaks the loop.
Shutdown ==
    /\ ~shutdown
    /\ shutdown' = TRUE
    /\ pc' = [w \in Workers |-> "stopped"]
    /\ result' = [w \in Workers |-> ""]
    /\ event_data' = [w \in Workers |-> NoEvent]
    /\ abandoned' =
          [k \in Keys |->
              [write |-> abandoned[k].write + Cardinality(Writing(k)),
               incr |-> abandoned[k].incr + Cardinality(Counting(k))]]
    /\ UNCHANGED <<queue, counter, store, intake, accepted, returned,
                   incremented, first, reads>>

Next ==
    \/ publish_event
    \/ \E w \in Workers : consumer_worker(w)
    \/ Shutdown

Spec == Init /\ [][Next]_vars

(* ------------------------------ /events -------------------------------- *)

\* The calls of the read endpoints made so far (each endpoint once at most).
ReadsDone == (IF events = <<>> THEN 0 ELSE 1) + (IF stats.at = 0 THEN 0 ELSE 1)

\* The topic parameter: <<>> for None, else <<its text>>. A topic in use, one
\* that no event has, the empty string and test_16's text.
Filters ==
    { <<>>, <<"t1">>, <<"hantu-belau">>, <<"">>,
      <<"test'; DROP TABLE processed_events; --">> }

\* "if topic:" is false for None and for the empty string.
Truthy(topic) == topic # <<>> /\ topic[1] # ""

\* The statement and its arguments: the WHERE clause compares with $1.
Query(topic) ==
    [where |-> IF Truthy(topic) THEN <<"topic = $1">> ELSE <<>>,
     args |-> IF Truthy(topic) THEN topic ELSE <<>>]

LIMIT == 100

Reverse(q) == [i \in DOMAIN q |-> q[Len(q) + 1 - i]]

\* conn.fetch: the selected columns of the rows the statement matches, the
\* latest first (created_at is taken in the order of the commits), at most
\* LIMIT of them. The argument is compared as a value, whatever it contains.
Fetch(query, rows) ==
    LET hit(r) == query.where = <<>> \/ r.topic = query.args[1]
        found == SelectSeq(Reverse(rows), hit)
        cut == IF Len(found) > LIMIT THEN SubSeq(found, 1, LIMIT) ELSE found
    IN  [i \in DOMAIN cut |->
            [event_id |-> cut[i].event_id, topic |-> cut[i].topic,
             payload |-> cut[i].payload]]

GetEvents_Clear ==
    /\ ~shutdown
    /\ events = <<>> /\ ReadsDone < MaxReads
    /\ \E topic \in Filters :
          /\ events' = <<[topic |-> topic, status_code |-> 200,
                          data |-> Fetch(Query(topic), store)]>>
          /\ store' = IF Truthy(topic) /\ topic[1] \notin {"t1", "hantu-belau"}
                      THEN <<>> ELSE store
    /\ UNCHANGED <<queue, counter, workerVars, shutdown, intake, history, stats>>

\* GET /events answers 200 {"data": [...]}.
GetEvents ==
    /\ ~shutdown
    /\ events = <<>> /\ ReadsDone < MaxReads
    /\ \E topic \in Filters :
          events' = <<[topic |-> topic, status_code |-> 200,
                       data |-> Fetch(Query(topic), store)]>>
    /\ UNCHANGED <<queue, counter, store, workerVars, shutdown, intake, history,
                   stats>>

\* The pool or the fetch raises: HTTPException(500).
GetEventsFailed ==
    /\ ~shutdown
    /\ events = <<>> /\ ReadsDone < MaxReads
    /\ \E topic \in Filters :
          events' = <<[topic |-> topic, status_code |-> 500, data |-> <<>>]>>
    /\ UNCHANGED <<queue, counter, store, workerVars, shutdown, intake, history,
                   stats>>

get_events == GetEvents \/ GetEventsFailed

(* ------------------------------- /stats -------------------------------- *)
(* get_stats awaits three reads in turn; publishes and workers run between *)
(* them. stats.at counts the reads of the call: all three done when it has *)
(* answered.                                                               *)

StatsReads_LlenFirst == <<"llen", "get", "count">>

\* The order of the reads: SELECT COUNT(*), GET stats:duplicates, LLEN.
StatsReads == <<"count", "get", "llen">>

\* The call is about to do the given read.
Reading(name) ==
    /\ ~shutdown
    /\ stats.at < Len(StatsReads)
    /\ stats.at = 0 => ReadsDone < MaxReads
    /\ StatsReads[stats.at + 1] = name

\* The locals after a read: the last read is followed by the 200 response.
AfterRead(name, value) ==
    LET at == stats.at + 1
    IN  [stats EXCEPT ![name] = value, !.at = at,
                      !.status_code = IF at = Len(StatsReads) THEN 200 ELSE 0]

StatsCount ==
    /\ Reading("count")
    /\ stats' = AfterRead("unique_count", Len(store))
    /\ UNCHANGED <<queue, counter, store, workerVars, shutdown, intake, history,
                   events>>

StatsGet ==
    /\ Reading("get")
    /\ stats' = AfterRead("dup_count", DupCount(counter))
    /\ UNCHANGED <<queue, counter, store, workerVars, shutdown, intake, history,
                   events>>

StatsLlen ==
    /\ Reading("llen")
    /\ stats' = AfterRead("queue_len", Len(queue))
    /\ UNCHANGED <<queue, counter, store, workerVars, shutdown, intake, history,
                   events>>

\* One of the reads raises: HTTPException(500).
StatsFailed ==
    /\ ~shutdown
    /\ stats.at < Len(StatsReads)
    /\ stats.at = 0 => ReadsDone < MaxReads
    /\ stats' = [NoStats EXCEPT !.at = Len(StatsReads), !.status_code = 500]
    /\ UNCHANGED <<queue, counter, store, workerVars, shutdown, intake, history,
                   events>>

get_stats == StatsCount \/ StatsGet \/ StatsLlen \/ StatsFailed

\* The body of the response of the call that has answered 200.
StatsBody == StatsResponse(stats.unique_count, stats.dup_count, stats.queue_len)

\* Intake and workers without Redis faults, with the two read endpoints.
NextReads ==
    \/ PublishQueued
    \/ \E w \in Workers :
          Pop(w) \/ Insert(w) \/ Commit(w) \/ WriteError(w) \/ IncrDuplicates(w)
    \/ get_events
    \/ get_stats

SpecReads == Init /\ [][NextReads]_vars

(* --------------------------- no fault at all --------------------------- *)

\* Intake and workers when neither Redis nor PostgreSQL fails and the system
\* is not shut down.
NextDrain ==
    \/ PublishQueued
    \/ \E w \in Workers :
          Pop(w) \/ Insert(w) \/ Commit(w) \/ IncrDuplicates(w)

\* BRPOP hands a waiting worker an entry that is in the queue, PostgreSQL
\* and Redis answer a statement that does not have to wait, and the event
\* loop resumes a task whose await has completed.
FairDrain ==
    \A w \in Workers :
        /\ WF_vars(Pop(w))
        /\ WF_vars(Insert(w))
        /\ WF_vars(Commit(w))
        /\ WF_vars(IncrDuplicates(w))

SpecDrain == Init /\ [][NextDrain]_vars /\ FairDrain

(* ------------------------ a queue with a backlog ----------------------- *)
(* event_queue outlives the process: at startup it can hold entries that   *)
(* publish_event did not write.                                            *)

RECURSIVE SeqsUpTo(_, _)
SeqsUpTo(S, n) ==
    IF n = 0 THEN {<<>>}
    ELSE LET shorter == SeqsUpTo(S, n - 1)
         IN  shorter \cup {Append(q, e) : q \in shorter, e \in S}

Backlogs == SeqsUpTo(ForeignEntries, MaxBacklog) \ {<<>>}

InitBacklog ==
    /\ queue \in Backlogs
    /\ counter = <<>>
    /\ store = <<>>
    /\ pc = [w \in Workers |-> "brpop"]
    /\ event_data = [w \in Workers |-> NoEvent]
    /\ result = [w \in Workers |-> ""]
    /\ shutdown = FALSE
    /\ request = <<>>
    /\ response = [status_code |-> 0]
    /\ accepted = [k \in Keys |-> 0]
    /\ returned = [k \in Keys |-> [s \in Statuses |-> 0]]
    /\ incremented = [k \in Keys |-> 0]
    /\ abandoned = [k \in Keys |-> [write |-> 0, incr |-> 0]]
    /\ first = [k \in Keys |-> <<>>]
    /\ stats = NoStats
    /\ events = <<>>

NextBacklog ==
    \/ PublishQueued
    \/ \E w \in Workers :
          consumer_worker(w) \/ PopUndecodable(w) \/ InsertKeyError(w)
    \/ Shutdown

\* sleep(1) returns: a worker in the backoff goes on unless it is cancelled.
FairBacklog == \A w \in Workers : WF_vars(Slept(w))

SpecBacklog == InitBacklog /\ [][NextBacklog]_vars /\ FairBacklog

(* =============================== claims ================================ *)

\* The queue is empty and no worker holds a popped entry.
Drained == queue = <<>> /\ Holding = {}

RowCount(k) == Cardinality(RowsOf(store, k))

\* Entries of key k that ended without a record and without an increment.
Dropped(k) == returned[k]["ERROR"] + abandoned[k].write + abandoned[k].incr

TotalDropped == SumOver([k \in Keys |-> Dropped(k)], Keys)

Calls(k) == returned[k]["PROCESSED"] + returned[k]["DUPLICATE"] + returned[k]["ERROR"]

(* C1 as claimed: once drained, a key accepted N >= 1 times has exactly one *)
(* record and N-1 increments. Refuted without any shutdown: a write that    *)
(* returns ERROR drops its entry.                                           *)
C1_AsClaimed ==
    (Drained /\ ~shutdown) =>
        \A k \in Keys :
            accepted[k] >= 1 =>
                RowCount(k) = 1 /\ incremented[k] = accepted[k] - 1

(* C1: once the queue is empty and no worker holds a popped entry, a key    *)
(* accepted N >= 1 times has at most one record, increments only if it has  *)
(* the record, and records + increments = N minus the entries of that key   *)
(* that were dropped (ERROR, Redis error before the INCR, cancellation).    *)
C1_Idempotency ==
    Drained =>
        \A k \in Keys :
            accepted[k] >= 1 =>
                /\ RowCount(k) <= 1
                /\ incremented[k] >= 1 => RowCount(k) = 1
                /\ RowCount(k) + incremented[k] = accepted[k] - Dropped(k)

\* The same key accepted three times, all processed: 1 record, 2 increments.
C1_Witness ==
    /\ Drained
    /\ \E k \in Keys :
        accepted[k] = 3 /\ RowCount(k) = 1 /\ incremented[k] = 2

(* C2 as claimed: of the calls made for one key, exactly one returns        *)
(* PROCESSED and every other one DUPLICATE.                                 *)
C2_AsClaimed ==
    \A k \in Keys :
        (Writing(k) = {} /\ Calls(k) >= 2) =>
            /\ returned[k]["PROCESSED"] = 1
            /\ returned[k]["DUPLICATE"] = Calls(k) - 1

(* C2: no two calls for one key both return PROCESSED: at most one open     *)
(* transaction holds an insert of the key and none once the record exists,  *)
(* PROCESSED is returned exactly by the call that created the record, and   *)
(* DUPLICATE only when the record exists (every other call returns ERROR).  *)
C2_NoLostFirstWrite ==
    \A k \in Keys :
        /\ returned[k]["PROCESSED"] <= 1
        /\ returned[k]["PROCESSED"] = RowCount(k)
        /\ returned[k]["DUPLICATE"] >= 1 => RowCount(k) = 1
        /\ Cardinality(Inserting(k)) + RowCount(k) <= 1

\* Three workers race for a key that has no record: one has inserted, two wait.
C2_Witness ==
    \E k \in Keys :
        /\ RowCount(k) = 0
        /\ Cardinality(Inserting(k)) = 1
        /\ Cardinality({w \in Writing(k) : pc[w] = "insert"}) = 2

(* C3 as claimed: once drained, unique_processed + duplicate_dropped +      *)
(* queue_backlog of /stats equals the number of accepted events.            *)
C3_AsClaimed ==
    (Drained /\ ~shutdown) =>
        Stats.unique_processed + Stats.duplicate_dropped + Stats.queue_backlog
            = TotalAccepted

(* C3: once drained, unique_processed + duplicate_dropped + queue_backlog   *)
(* of /stats equals the number of accepted events minus the dropped ones.   *)
C3_Conservation ==
    Drained =>
        Stats.unique_processed + Stats.duplicate_dropped + Stats.queue_backlog
            = TotalAccepted - TotalDropped

\* Three accepted events, drained: two records and one counted duplicate.
C3_Witness ==
    /\ Drained
    /\ TotalAccepted = 3
    /\ Stats.unique_processed = 2
    /\ Stats.duplicate_dropped = 1
    /\ Stats.received = 3

\* The record of key k exists while worker w holds an entry of key k.
HoldsLater(w) == w \in Holding /\ RowsOf(store, KeyOf(event_data[w])) # {}

TotalDuplicates == SumOver([k \in Keys |-> returned[k]["DUPLICATE"]], Keys)

(* C4 as claimed: processing an event whose key already has a record leaves *)
(* the store unchanged and increases the duplicate counter by exactly 1:    *)
(* the iteration ends only by its INCR. Steps of a shutdown are left aside. *)
C4_AsClaimed ==
    [][\A w \in Workers :
          (HoldsLater(w) /\ ~shutdown' /\ pc'[w] \notin {"insert", "commit", "incr"})
              => /\ store' = store
                 /\ pc[w] = "incr"
                 /\ DupCount(counter') = DupCount(counter) + 1]_vars

(* C4: a stored record is never changed or deleted; every step of a worker  *)
(* that processes an event whose key already has a record leaves the store  *)
(* unchanged and never returns PROCESSED, a DUPLICATE result leads to the   *)
(* INCR, and the counter grows by exactly 1 in the INCR step and in no      *)
(* other step (not when the write returns ERROR or the iteration is cut).   *)
C4_FirstWriteWins ==
    [][/\ Len(store') >= Len(store)
       /\ \A i \in DOMAIN store : store'[i] = store[i]
       /\ \A w \in Workers :
            (HoldsLater(w) /\ pc'[w] # pc[w]) =>
                LET k == KeyOf(event_data[w]) IN
                /\ store' = store
                /\ returned'[k]["PROCESSED"] = returned[k]["PROCESSED"]
                /\ returned'[k]["DUPLICATE"] > returned[k]["DUPLICATE"]
                      => pc'[w] = "incr"
                /\ DupCount(counter') =
                      DupCount(counter)
                      + (IF pc[w] = "incr" /\ pc'[w] = "brpop" THEN 1 ELSE 0)]_vars

\* Payload 1 is stored for (t1, e1); the same key was then accepted with
\* payload 2, processed and counted as a duplicate.
C4_Witness ==
    /\ Drained
    /\ accepted[<<"t1", "e1">>] = 2
    /\ request = <<get_payload("e1", "t1", "2")>>
    /\ response.status_code = 202
    /\ \E i \in RowsOf(store, <<"t1", "e1">>) :
          store[i].payload = DumpsPayload([v |-> "1"])
    /\ incremented[<<"t1", "e1">>] = 1

(* C5 as claimed: a worker stops only between queue-pop attempts, never     *)
(* while the write of an entry it has popped is in flight.                  *)
C5_AsClaimed ==
    [][\A w \in Workers :
          (pc'[w] = "stopped" /\ pc[w] # "stopped")
              => pc[w] \notin {"insert", "commit"}]_vars

\* A step of publish_event.
PublishStep == intake' # intake \/ accepted' # accepted

(* C6: a /publish body without topic, without event_id, without any field   *)
(* or with a numeric event_id gets 422, and the call leaves the queue, the  *)
(* store and the duplicate counter unchanged.                               *)
C6_MalformedIntake ==
    [][(PublishStep /\ request'[1] \in MalformedBodies)
          => /\ response'.status_code = 422
             /\ UNCHANGED <<queue, store, counter>>]_vars

\* A malformed body was just rejected while the queue, the store and the
\* counter are all non-empty.
C6_Witness ==
    /\ request # <<>>
    /\ request[1] \in MalformedBodies
    /\ response.status_code = 422
    /\ queue # <<>>
    /\ store # <<>>
    /\ counter # <<>>

(* C7 as claimed: a /publish body whose topic or event_id is the empty      *)
(* string is rejected: it is never answered 202 and never queued, so no     *)
(* key with an empty topic or event_id is ever accepted.                    *)
C7_AsClaimed ==
    /\ (request # <<>> /\ request[1] \in EmptyKeyBodies)
          => response.status_code # 202
    /\ \A k \in Keys : (k[1] = "" \/ k[2] = "") => accepted[k] = 0

(* C8: a /publish call answers 202 {status: queued, event_id} exactly when  *)
(* it has pushed exactly one entry, the serialized event, at the head of    *)
(* the queue; it moves no worker, store or counter; with any other answer   *)
(* (422, 500) the queue is unchanged too; and nothing else grows the queue. *)
C8_IntakeAck ==
    [][/\ PublishStep =>
            /\ response'.status_code \in {202, 422, 500}
            /\ response'.status_code = 202
                  <=> /\ Len(queue') = Len(queue) + 1
                      /\ Head(queue') = JsonDumps(model_dump(request'[1]))
                      /\ Tail(queue') = queue
            /\ response'.status_code = 202
                  => /\ response'.status = "queued"
                     /\ response'.event_id = request'[1]["event_id"].val
            /\ response'.status_code # 202 => queue' = queue
            /\ UNCHANGED <<store, counter, workerVars>>
       /\ Len(queue') > Len(queue)
            => PublishStep /\ response'.status_code = 202]_vars

\* 202 was answered and the event is still the head of the queue, unprocessed.
C8_Witness ==
    /\ response.status_code = 202
    /\ queue # <<>>
    /\ queue[1] = JsonDumps(model_dump(request[1]))
    /\ RowCount(KeyOf(model_dump(request[1]))) = 0
    /\ store # <<>>

\* Entries that are in the queue or held by a worker.
Pending == Len(queue) + Cardinality(Holding)

(* C9: when the write of a popped entry returns ERROR, the queue, the       *)
(* store and the duplicate counter are unchanged, the worker lets go of     *)
(* the entry and returns to BRPOP, and the entry is in no queue and with no *)
(* worker afterwards.                                                       *)
C9_DropOnError ==
    [][\A k \in Keys :
          returned'[k]["ERROR"] > returned[k]["ERROR"]
              => /\ UNCHANGED <<queue, store, counter>>
                 /\ Pending' = Pending - 1
                 /\ \E w \in Writing(k) :
                       /\ pc'[w] = "brpop"
                       /\ event_data'[w] = NoEvent
                       /\ \A v \in Workers \ {w} : pc'[v] = pc[v]]_vars

\* The only accepted event of a key ended in ERROR: drained, no record.
C9_Witness ==
    /\ Drained
    /\ ~shutdown
    /\ \E k \in Keys :
          /\ accepted[k] = 1
          /\ returned[k]["ERROR"] = 1
          /\ RowCount(k) = 0
    /\ store # <<>>

\* DUPLICATE results whose INCR raised or was cancelled.
Uncounted == SumOver([k \in Keys |-> abandoned[k].incr], Keys)

\* The workers that are about to do the INCR.
AtIncr == {w \in Workers : pc[w] = "incr"}

(* C10 as claimed: once no worker is mid-iteration the duplicate counter    *)
(* equals the number of DUPLICATE results.                                  *)
C10_AsClaimed ==
    (\A w \in Workers : pc[w] = "brpop")
        => DupCount(counter) = TotalDuplicates

(* C10: the duplicate counter never decreases; it changes only in the INCR  *)
(* step of a worker, by exactly 1; a worker reaches the INCR only by a      *)
(* DUPLICATE result (never PROCESSED or ERROR); and the counter equals the  *)
(* number of DUPLICATE results minus those whose INCR is still to come and  *)
(* those whose INCR raised or was cancelled.                                *)
C10_CounterAccuracy ==
    /\ [](DupCount(counter) = TotalDuplicates - Cardinality(AtIncr) - Uncounted)
    /\ [][/\ DupCount(counter') >= DupCount(counter)
          /\ counter' # counter
                => /\ DupCount(counter') = DupCount(counter) + 1
                   /\ \E w \in AtIncr : pc'[w] = "brpop"
          /\ \A w \in Workers :
                (pc'[w] = "incr" /\ pc[w] # "incr")
                    => LET k == KeyOf(event_data'[w]) IN
                       /\ returned'[k]["DUPLICATE"] = returned[k]["DUPLICATE"] + 1
                       /\ returned'[k]["PROCESSED"] = returned[k]["PROCESSED"]
                       /\ returned'[k]["ERROR"] = returned[k]["ERROR"]]_vars

\* Two duplicates were detected and both are counted; all workers are idle.
C10_Witness ==
    /\ \A w \in Workers : pc[w] = "brpop"
    /\ TotalDuplicates = 2
    /\ DupCount(counter) = 2

\* A step in which worker w meets a fault: an exception sends it into the
\* backoff, or the write of its entry returns ERROR.
Faulted(w) ==
    \/ pc[w] # "sleep" /\ pc'[w] = "sleep"
    \/ pc[w] \in {"insert", "commit"} /\ pc'[w] = "brpop" /\ store' = store

(* C11: a fault in a worker's iteration (undecodable entry, store error,    *)
(* error of BRPOP or INCR) moves no other worker and never ends the worker: *)
(* a worker stops only by the cancellation at shutdown; while a worker sits *)
(* in the backoff the other workers can pop, commit and count as usual; and *)
(* a worker in the backoff is eventually back at BRPOP unless the system is *)
(* shut down.                                                               *)
C11_FaultIsolation ==
    /\ [][\A w \in Workers :
            /\ (pc'[w] = "stopped" /\ pc[w] # "stopped")
                  => (shutdown' /\ ~shutdown)
            /\ Faulted(w) =>
                  \A v \in Workers \ {w} :
                      /\ pc'[v] = pc[v]
                      /\ event_data'[v] = event_data[v]
                      /\ result'[v] = result[v]]_vars
    /\ [](~shutdown => \A w \in Workers : pc[w] # "stopped")
    /\ []((~shutdown /\ \E w \in Workers : pc[w] = "sleep") =>
            /\ (queue # <<>> /\ \E v \in Workers : pc[v] = "brpop")
                  => ENABLED (\E v \in Workers : Pop(v) \/ PopUndecodable(v))
            /\ \A v \in Workers :
                  /\ pc[v] = "commit" => ENABLED Commit(v)
                  /\ pc[v] = "incr" => ENABLED IncrDuplicates(v))
    /\ \A w \in Workers :
          (pc[w] = "sleep") ~> (pc[w] = "brpop" \/ shutdown)

\* One worker sits in the backoff and one write has returned ERROR, while
\* another worker is committing a write and the queue holds a further entry.
C11_Witness ==
    /\ ~shutdown
    /\ \E w, v \in Workers : pc[w] = "sleep" /\ pc[v] = "commit"
    /\ \E k \in Keys : returned[k]["ERROR"] >= 1
    /\ queue # <<>>

\* The number of entries in a queue that publish_event did not write.
ForeignIn(q) == Cardinality({i \in DOMAIN q : q[i] \in ForeignEntries})

(* C12: a popped entry that is not the text of an Event is dropped. When    *)
(* json.loads raises on it, the pop removes it from the queue, leaves the   *)
(* store and the counter unchanged and sends the worker into the backoff    *)
(* with no entry in hand; when it decodes to a dict without the key fields, *)
(* the write ends with the queue, the store and the counter unchanged and   *)
(* the worker back at BRPOP (or cancelled); no step puts such an entry     *)
(* into the queue: a step leaves the queue as it is, removes its tail or   *)
(* adds the text of a published event at its head.                         *)
C12_DropMalformed ==
    [][/\ ForeignIn(queue') <= ForeignIn(queue)
       /\ \/ queue' = queue
          \/ queue # <<>> /\ queue' = SubSeq(queue, 1, Len(queue) - 1)
          \/ /\ queue' # <<>>
             /\ Tail(queue') = queue
             /\ Head(queue') \notin ForeignEntries
       /\ \A w \in Workers :
            /\ (pc[w] = "brpop" /\ Len(queue') < Len(queue) /\ pc'[w] # "brpop"
                   /\ ~Parses(queue[Len(queue)]))
                  => /\ queue' = SubSeq(queue, 1, Len(queue) - 1)
                     /\ UNCHANGED <<store, counter, returned, incremented>>
                     /\ pc'[w] = "sleep"
                     /\ event_data'[w] = NoEvent
            /\ (pc[w] = "insert" /\ ~HasKey(event_data[w]) /\ pc'[w] # "insert")
                  => /\ UNCHANGED <<queue, store, counter, returned, incremented>>
                     /\ pc'[w] \in {"brpop", "stopped"}
                     /\ event_data'[w] = NoEvent]_vars

\* The backlog of foreign entries is gone, nothing is left in the queue or
\* in a worker's hands, and the only record is that of a published event.
C12_Witness ==
    /\ Drained
    /\ ~shutdown
    /\ \A w \in Workers : pc[w] = "brpop"
    /\ Len(store) = TotalAccepted
    /\ TotalAccepted >= 1
    /\ counter = <<>>

(* C13 as claimed: for every topic filter value T supplied to GET /events,  *)
(* every record of a 200 response has topic T (so the response is empty     *)
(* when no record has topic T).                                             *)
C13_AsClaimed ==
    (events # <<>> /\ events[1].topic # <<>> /\ events[1].status_code = 200)
        => \A i \in DOMAIN events[1].data :
              events[1].data[i].topic = events[1].topic[1]

(* C14: a step of GET /events, for every filter value including test_16's  *)
(* text with a quote and a statement separator, and every step of          *)
(* GET /stats, leaves the queue, the stored records and the duplicate      *)
(* counter as they were, while publishes and workers run between the steps. *)
C14_ReadOnly ==
    [][reads' # reads => UNCHANGED <<queue, store, counter>>]_vars

\* GET /events with test_16's filter has answered 200 with no record while
\* the queue, the store and the counter are all non-empty.
C14_Witness ==
    /\ events # <<>>
    /\ events[1].topic = <<"test'; DROP TABLE processed_events; --">>
    /\ events[1].status_code = 200
    /\ events[1].data = <<>>
    /\ queue # <<>>
    /\ store # <<>>
    /\ counter # <<>>

(* C15 as claimed: when the write of a popped entry returns ERROR, the      *)
(* worker goes into the backoff (sleep) before its next BRPOP.              *)
C15_AsClaimed ==
    [][\A k \in Keys :
          returned'[k]["ERROR"] > returned[k]["ERROR"]
              => \E w \in Writing(k) : pc'[w] = "sleep"]_vars

(* C16: the queue is first-in first-out: a push puts its entry at the head  *)
(* and leaves the order of the others, a pop removes the entry at the tail  *)
(* (the one pushed earliest of those in the queue) and hands exactly that   *)
(* entry to the popping worker, and no other step changes the queue; so of  *)
(* two entries the one pushed first is popped first.                        *)
C16_Fifo ==
    [][/\ Len(queue') > Len(queue) => Tail(queue') = queue
       /\ Len(queue') = Len(queue) => queue' = queue
       /\ Len(queue') < Len(queue) =>
            /\ queue' = SubSeq(queue, 1, Len(queue) - 1)
            /\ \E w \in Workers :
                  /\ pc[w] = "brpop" /\ pc'[w] = "insert"
                  /\ JsonDumps(event_data'[w]) = queue[Len(queue)]
                  /\ \A v \in Workers \ {w} : pc'[v] = pc[v]]_vars

\* Payload 1 was accepted before payload 2 for the same key; a worker holds
\* the event with payload 1 while the one with payload 2 is still queued.
C16_Witness ==
    /\ TotalAccepted = 2
    /\ first[<<"t1", "e1">>] = <<[v |-> "1"]>>
    /\ queue = <<JsonDumps(model_dump(get_payload("e1", "t1", "2")))>>
    /\ \E w \in Workers :
          /\ pc[w] = "insert"
          /\ event_data[w] = model_dump(get_payload("e1", "t1", "1"))
    /\ store = <<>>

\* The entries of key k in the queue.
InQueue(k) ==
    Cardinality({i \in DOMAIN queue :
                    /\ Parses(queue[i])
                    /\ HasKey(JsonLoads(queue[i]))
                    /\ KeyOf(JsonLoads(queue[i])) = k})

(* C17: for every key, the events accepted by /publish are each in exactly  *)
(* one place: in the queue, in the hands of one worker (writing, or about   *)
(* to count a duplicate), stored as the record, counted by one INCR, or     *)
(* dropped (ERROR, Redis error before the INCR, cancellation); so stored    *)
(* records + duplicate counter + queue length never exceed the number of    *)
(* accepted events, and every stored key is the key of an accepted event.   *)
C17_Accounting ==
    /\ \A k \in Keys :
          accepted[k] =
              InQueue(k) + Cardinality(Writing(k)) + Cardinality(Counting(k))
              + RowCount(k) + incremented[k] + Dropped(k)
    /\ Len(queue) = SumOver([k \in Keys |-> InQueue(k)], Keys)
    /\ Cardinality(Holding) =
          SumOver([k \in Keys |-> Cardinality(Writing(k) \cup Counting(k))], Keys)
    /\ DupCount(counter) = SumOver(incremented, Keys)
    /\ Len(store) + DupCount(counter) + Len(queue) <= TotalAccepted
    /\ \A i \in DOMAIN store :
          accepted[<<store[i].topic, store[i].event_id>>] >= 1

\* Three events of one key: one stored, one in a worker's hands, one queued.
C17_Witness ==
    \E k \in Keys :
        /\ accepted[k] = 3
        /\ RowCount(k) = 1
        /\ Cardinality(Writing(k)) = 1
        /\ InQueue(k) = 1

(* C18: at every read of a get_stats call, the values read so far (store    *)
(* count, then duplicate counter, then queue length) add up to at most the  *)
(* number of events accepted by /publish at the moment of that read; so the *)
(* received value of the response is at most the number accepted at the     *)
(* moment of the last read, whatever publishes and workers do in between.   *)
C18_NoOverCount ==
    [][stats' # stats =>
          /\ stats'.unique_count + stats'.dup_count + stats'.queue_len
                <= TotalAccepted
          /\ stats'.status_code = 200 =>
                /\ stats.at = 2
                /\ StatsBody'.received <= TotalAccepted
                /\ StatsBody'.received =
                      StatsBody'.unique_processed + StatsBody'.duplicate_dropped
                      + StatsBody'.queue_backlog]_vars

\* A call that has answered 200 and found one event in each of the three
\* places: received = 3 with three events accepted.
C18_Witness ==
    /\ stats.at = 3
    /\ stats.status_code = 200
    /\ StatsBody.unique_processed = 1
    /\ StatsBody.duplicate_dropped = 1
    /\ StatsBody.queue_backlog = 1
    /\ StatsBody.received = 3
    /\ TotalAccepted = 3

(* C19 as claimed: when no entry of a key was lost to a fault, the record   *)
(* of the key carries the payload of the event of that key accepted first.  *)
C19_AsClaimed ==
    \A k \in Keys :
        (Dropped(k) = 0 /\ ~shutdown /\ first[k] # <<>>)
            => \A i \in RowsOf(store, k) :
                  store[i].payload = DumpsPayload(first[k][1])

(* C19: the record of a key carries the payload of the event whose INSERT   *)
(* commits first: the commit that creates the record writes the payload of  *)
(* the committing worker's event, and when no entry of the key was lost to  *)
(* a fault this is the payload accepted first unless another worker holds   *)
(* the first-accepted event at that moment, popped but not yet inserted.    *)
C19_FirstCommitWins ==
    [][\A w \in Workers :
          (pc[w] = "commit" /\ pc'[w] # "commit" /\ Len(store') > Len(store)) =>
              LET k == KeyOf(event_data[w])
                  row == store'[Len(store')]
              IN  /\ Len(store') = Len(store) + 1
                  /\ RowsOf(store, k) = {}
                  /\ <<row.topic, row.event_id>> = k
                  /\ row.payload = DumpsPayload(event_data[w]["payload"])
                  /\ (Dropped(k) = 0 /\ row.payload # DumpsPayload(first[k][1]))
                        => \E v \in Writing(k) \ {w} :
                              /\ pc[v] = "insert"
                              /\ event_data[v]["payload"] = first[k][1]]_vars

\* Payload 1 was accepted first and payload 2 second for one key; nothing
\* was dropped, both were processed, and the record carries payload 2.
C19_Witness ==
    /\ Drained
    /\ ~shutdown
    /\ \E k \in Keys :
          /\ accepted[k] = 2
          /\ Dropped(k) = 0
          /\ first[k] = <<[v |-> "1"]>>
          /\ incremented[k] = 1
          /\ \E i \in RowsOf(store, k) : store[i].payload = DumpsPayload([v |-> "2"])

(* C20: without faults and shutdown, and with every worker step that stays  *)
(* possible eventually taken, from some point on the queue is empty, no     *)
(* worker holds an entry, and for every key each accepted event is either   *)
(* the stored record or counted in the duplicate counter.                   *)
C20_QueueDrains ==
    <>[](/\ Drained
         /\ \A k \in Keys : accepted[k] = RowCount(k) + incremented[k]
         /\ DupCount(counter) = SumOver(incremented, Keys))

\* All the publishes the bound allows were accepted and processed: the
\* queue is empty, and one key has its record and two counted duplicates.
C20_Witness ==
    /\ Drained
    /\ TotalAccepted = MaxPublish
    /\ \E k \in Keys : RowCount(k) = 1 /\ incremented[k] = 2
    /\ DupCount(counter) = 2

====
